---- MODULE Spec2Model ----
(***************************************************************************)
(* Model of rastPATCH, python/raster_tile.py: tile_raster_with_overlap     *)
(* plans a grid of overlapping windows over a raster and then reads and    *)
(* writes the windows one at a time.  One run of the function is one       *)
(* behaviour; the raster size and the two parameters are the run's inputs. *)
(***************************************************************************)
EXTENDS Integers, Sequences, FiniteSets, TLC

VARIABLES
    raster_width,     \* src.width
    raster_height,    \* src.height
    tile_size,        \* parameter tile_size
    overlap,          \* parameter overlap
    pc,               \* position of the run inside tile_raster_with_overlap
    tiles_dir,        \* TRUE once <output_dir>/tiles exists
    temp_dir,         \* "unbound" | "present" | "removed"
    temp_files,       \* the .npy files inside the scratch directory
    src_open,         \* TRUE while the raster handle is held
    tile_grid,        \* the list tile_grid
    pos,              \* 1-based position of the loop over tile_grid
    reads,            \* positions whose src.read returned, in order
    written,          \* positions whose save_tile_as_geotiff returned, in order
    disk,             \* tile files of this run: name -> [win, complete]
    success_reported, \* the "Success!" lines were printed
    error_reported,   \* the "Error during processing" line was printed
    exiting,          \* sys.exit(1) was called: SystemExit is propagating
    exit_status       \* -1 while running, then 0 or 1

vars == <<raster_width, raster_height, tile_size, overlap, pc, tiles_dir,
          temp_dir, temp_files, src_open, tile_grid, pos, reads, written,
          disk, success_reported, error_reported, exiting, exit_status>>

config == <<raster_width, raster_height, tile_size, overlap>>

(* ----------------------------- bounds ---------------------------------- *)
MaxDim == 4
MaxTile == 3
MaxOverlap == 4

Min2(a, b) == IF a <= b THEN a ELSE b
Max2(a, b) == IF a >= b THEN a ELSE b

(* ------------------------ the grid planner ----------------------------- *)

\* a stride that forgets the overlap
StrideNoOverlap == tile_size

\* tile_size - overlap, the step of both range() calls
Stride == tile_size - overlap

\* range() that also yields the stop value
RECURSIVE PyRangeInclusive(_, _, _)
PyRangeInclusive(start, stop, step) ==
    IF step > 0
    THEN IF start > stop THEN <<>>
         ELSE <<start>> \o PyRangeInclusive(start + step, stop, step)
    ELSE <<>>

\* Python's range(start, stop, step) for step # 0, as a sequence
RECURSIVE PyRange(_, _, _)
PyRange(start, stop, step) ==
    IF step > 0
    THEN IF start >= stop THEN <<>>
         ELSE <<start>> \o PyRange(start + step, stop, step)
    ELSE IF start <= stop THEN <<>>
         ELSE <<start>> \o PyRange(start + step, stop, step)

\* the back-extension without the clamp at zero
OffNoClamp(v) == IF v > 0 THEN v - overlap ELSE 0

\* max(0, v - overlap if v > 0 else 0)
Off(v) == Max2(0, IF v > 0 THEN v - overlap ELSE 0)

\* an extent that shrinks instead of growing by the overlap
ExtentShrunk(v) == tile_size - (IF v > 0 THEN overlap ELSE 0)

\* tile_size + (overlap if v > 0 else 0)
Extent(v) == tile_size + (IF v > 0 THEN overlap ELSE 0)

\* one iteration of the inner loop: the tuple (y_off, x_off, width, height)
WindowAt(y, x) ==
    LET x_off  == Off(x)
        y_off  == Off(y)
        width  == Min2(Extent(x), raster_width - x_off)
        height == Min2(Extent(y), raster_height - y_off)
    IN  <<y_off, x_off, width, height>>

\* the inner loop for one y
GridRow(y, xs) == [k \in 1..Len(xs) |-> WindowAt(y, xs[k])]

\* the outer loop
RECURSIVE GridRows(_, _)
GridRows(ys, xs) ==
    IF ys = <<>> THEN <<>>
    ELSE GridRow(Head(ys), xs) \o GridRows(Tail(ys), xs)

\* tile_grid after both loops
TileGrid ==
    GridRows(PyRange(0, raster_height, Stride), PyRange(0, raster_width, Stride))

(* --------------------------- file names -------------------------------- *)

\* decimal digits of a non-negative integer, most significant first
RECURSIVE Digits(_)
Digits(n) == IF n < 10 THEN <<n>> ELSE Digits(n \div 10) \o <<n % 10>>

\* the format spec 04d: at least four digits, zero-padded on the left
Format04d(n) ==
    LET d == Digits(n)
    IN  IF Len(d) >= 4 THEN d ELSE [k \in 1..(4 - Len(d)) |-> 0] \o d

\* character codes of a digit sequence
DigitChars(d) == [k \in 1..Len(d) |-> 48 + d[k]]

\* f"tile_{y:04d}_{x:04d}.tif" as a sequence of character codes
TileName(w) ==
    <<116, 105, 108, 101, 95>> \o DigitChars(Format04d(w[1])) \o <<95>>
        \o DigitChars(Format04d(w[2])) \o <<46, 116, 105, 102>>

\* f"tile_{y}_{x}.npy": the name is determined by the two offsets
TempName(w) == <<w[1], w[2]>>

(* ------------------------------ the run -------------------------------- *)

SmallConfigs ==
    { <<w, h, t, o>> : w \in 1..MaxDim, h \in 1..MaxDim,
                       t \in -1..MaxTile, o \in -1..MaxOverlap }

\* the parameters of the __main__ block on rasters of 4000x4000 and 1500x12000
MainConfigs == { <<4000, 4000, 2000, 20>>, <<1500, 12000, 2000, 20>> }

InitWith(cfgs) ==
    /\ \E c \in cfgs :
          /\ raster_width = c[1]
          /\ raster_height = c[2]
          /\ tile_size = c[3]
          /\ overlap = c[4]
    /\ pc = "start"
    /\ tiles_dir = FALSE
    /\ temp_dir = "unbound"
    /\ temp_files = {}
    /\ src_open = FALSE
    /\ tile_grid = <<>>
    /\ pos = 0
    /\ reads = <<>>
    /\ written = <<>>
    /\ disk = <<>>
    /\ success_reported = FALSE
    /\ error_reported = FALSE
    /\ exiting = FALSE
    /\ exit_status = -1

Init == InitWith(SmallConfigs)

InitMain == InitWith(MainConfigs)

\* validate_and_prepare_paths: returns, or prints and re-raises
ValidatePaths ==
    /\ pc = "start"
    /\ \E ok \in BOOLEAN :
          /\ tiles_dir' = ok
          /\ pc' = IF ok THEN "mkdtemp" ELSE "except"
    /\ UNCHANGED <<config, temp_dir, temp_files, src_open, tile_grid, pos,
                   reads, written, disk, success_reported, error_reported,
                   exiting, exit_status>>

\* temp_dir = Path(tempfile.mkdtemp()); temp_dir stays unbound when it raises
MakeTempDir ==
    /\ pc = "mkdtemp"
    /\ \E ok \in BOOLEAN :
          /\ temp_dir' = IF ok THEN "present" ELSE "unbound"
          /\ pc' = IF ok THEN "open" ELSE "except"
    /\ UNCHANGED <<config, tiles_dir, temp_files, src_open, tile_grid, pos,
                   reads, written, disk, success_reported, error_reported,
                   exiting, exit_status>>

\* with rasterio.open(str(input_path)) as src, and the profile copy
OpenRaster ==
    /\ pc = "open"
    /\ \E ok \in BOOLEAN :
          /\ src_open' = ok
          /\ pc' = IF ok THEN "plan" ELSE "except"
    /\ UNCHANGED <<config, tiles_dir, temp_dir, temp_files, tile_grid, pos,
                   reads, written, disk, success_reported, error_reported,
                   exiting, exit_status>>

\* the two nested loops; range() raises ValueError on a zero step
PlanGrid ==
    /\ pc = "plan"
    /\ IF Stride = 0
       THEN /\ pc' = "except"
            /\ src_open' = FALSE
            /\ UNCHANGED <<tile_grid, pos>>
       ELSE /\ tile_grid' = TileGrid
            /\ pos' = 1
            /\ pc' = "extract"
            /\ UNCHANGED src_open
    /\ UNCHANGED <<config, tiles_dir, temp_dir, temp_files, reads, written,
                   disk, success_reported, error_reported, exiting,
                   exit_status>>

\* an error swallowed inside the loop: the run goes on with the next window
ContinueFrom(p) == [pc |-> "extract", pos |-> p + 1]

\* an exception inside the loop leaves the loop and the with block
RaiseFrom(p) == [pc |-> "except", pos |-> p]

\* Window(...) and src.read(1, window=win) for the window at pos
ReadWindow ==
    /\ pc = "extract"
    /\ pos <= Len(tile_grid)
    /\ \E ok \in BOOLEAN :
          IF ok
          THEN /\ reads' = Append(reads, pos)
               /\ pc' = "save_npy"
               /\ UNCHANGED <<pos, src_open>>
          ELSE /\ pc' = RaiseFrom(pos).pc
               /\ pos' = RaiseFrom(pos).pos
               /\ src_open' = (pc' # "except")
               /\ UNCHANGED reads
    /\ UNCHANGED <<config, tiles_dir, temp_dir, temp_files, tile_grid,
                   written, disk, success_reported, error_reported, exiting,
                   exit_status>>

\* np.save(temp_path, tile)
SaveTemp ==
    /\ pc = "save_npy"
    /\ \E ok \in BOOLEAN :
          IF ok
          THEN /\ temp_files' = temp_files \cup {TempName(tile_grid[pos])}
               /\ pc' = "save_tile"
               /\ UNCHANGED <<pos, src_open>>
          ELSE /\ pc' = RaiseFrom(pos).pc
               /\ pos' = RaiseFrom(pos).pos
               /\ src_open' = (pc' # "except")
               /\ UNCHANGED temp_files
    /\ UNCHANGED <<config, tiles_dir, temp_dir, tile_grid, reads, written,
                   disk, success_reported, error_reported, exiting,
                   exit_status>>

\* the file system after rasterio.open(path, 'w') and dst.write(data, 1)
PutFile(name, p, complete) ==
    [n \in DOMAIN disk \cup {name} |->
        IF n = name THEN [win |-> p, complete |-> complete] ELSE disk[n]]

\* save_tile_as_geotiff and pbar.update(1): the open for writing may fail,
\* the write may fail and leave the file in progress, or both succeed
SaveTile ==
    /\ pc = "save_tile"
    /\ \E outcome \in {"open_fails", "write_fails", "ok"} :
          LET name == TileName(tile_grid[pos])
          IN  IF outcome = "ok"
              THEN /\ disk' = PutFile(name, pos, TRUE)
                   /\ written' = Append(written, pos)
                   /\ pos' = pos + 1
                   /\ pc' = "extract"
                   /\ UNCHANGED src_open
              ELSE /\ disk' = IF outcome = "write_fails"
                              THEN PutFile(name, pos, FALSE) ELSE disk
                   /\ pc' = RaiseFrom(pos).pc
                   /\ pos' = RaiseFrom(pos).pos
                   /\ src_open' = (pc' # "except")
                   /\ UNCHANGED written
    /\ UNCHANGED <<config, tiles_dir, temp_dir, temp_files, tile_grid, reads,
                   success_reported, error_reported, exiting, exit_status>>

\* the loop is exhausted: both with blocks are left and the report is printed
Report ==
    /\ pc = "extract"
    /\ pos > Len(tile_grid)
    /\ src_open' = FALSE
    /\ success_reported' = TRUE
    /\ pc' = "finally"
    /\ UNCHANGED <<config, tiles_dir, temp_dir, temp_files, tile_grid, pos,
                   reads, written, disk, error_reported, exiting, exit_status>>

\* except Exception: print the error, sys.exit(1)
Except ==
    /\ pc = "except"
    /\ error_reported' = TRUE
    /\ exiting' = TRUE
    /\ pc' = "finally"
    /\ UNCHANGED <<config, tiles_dir, temp_dir, temp_files, src_open,
                   tile_grid, pos, reads, written, disk, success_reported,
                   exit_status>>

\* a cleanup that is skipped while SystemExit propagates
CleanupUnlessExiting(td) == IF td = "present" /\ ~exiting THEN "removed" ELSE td

\* if 'temp_dir' in locals(): shutil.rmtree(temp_dir, ignore_errors=True)
Cleanup(td) == IF td = "present" THEN "removed" ELSE td

\* the finally clause, then the function returns or SystemExit ends the run
Finally ==
    /\ pc = "finally"
    /\ temp_dir' = Cleanup(temp_dir)
    /\ temp_files' = IF temp_dir' = "removed" THEN {} ELSE temp_files
    /\ exit_status' = IF exiting THEN 1 ELSE 0
    /\ pc' = "done"
    /\ UNCHANGED <<config, tiles_dir, src_open, tile_grid, pos, reads,
                   written, disk, success_reported, error_reported, exiting>>

Next ==
    \/ ValidatePaths
    \/ MakeTempDir
    \/ OpenRaster
    \/ PlanGrid
    \/ ReadWindow
    \/ SaveTemp
    \/ SaveTile
    \/ Report
    \/ Except
    \/ Finally

Spec == Init /\ [][Next]_vars

SpecMain == InitMain /\ [][Next]_vars

(* ------------------------- checked properties -------------------------- *)

\* the configuration the planner's contract calls valid
ValidConfig == tile_size > 0 /\ overlap >= 0 /\ overlap < tile_size

\* tile_grid has been computed
Planned == pos >= 1

CeilDiv(a, b) == (a + b - 1) \div b

\* pixel (col, row) lies inside window w = (y_off, x_off, width, height)
Covers(w, col, row) ==
    /\ w[2] <= col /\ col < w[2] + w[3]
    /\ w[1] <= row /\ row < w[1] + w[4]

\* number of pixels two intervals [a, a + m) and [b, b + n) share
Shared(a, m, b, n) == Max2(0, Min2(a + m, b + n) - Max2(a, b))

\* number of nominal x origins, i.e. windows per row of the grid
Columns == Len(PyRange(0, raster_width, Stride))

\* character-by-character comparison of two names
LexLess(a, b) ==
    LET m    == Min2(Len(a), Len(b))
        diff == {k \in 1..m : a[k] # b[k]}
    IN  IF diff = {} THEN Len(a) < Len(b)
        ELSE LET k == CHOOSE d \in diff : \A e \in diff : d <= e
             IN  a[k] < b[k]

\* C1: with a valid configuration every pixel of the raster lies inside at
\* least one window of the planned grid.
C1_Coverage ==
    (ValidConfig /\ Planned) =>
        \A col \in 0..(raster_width - 1), row \in 0..(raster_height - 1) :
            \E k \in 1..Len(tile_grid) : Covers(tile_grid[k], col, row)

\* a grid of several windows with a real overlap on a raster wider than a tile
C1_Witness ==
    /\ ValidConfig /\ Planned
    /\ overlap > 0 /\ raster_width > tile_size /\ raster_height > tile_size
    /\ Len(tile_grid) >= 4

\* C2: with a valid configuration two windows from consecutive nominal
\* origins along one axis share at most `overlap` pixels along that axis.
C2_OverlapBound ==
    (ValidConfig /\ Planned) =>
        \A k \in 1..Len(tile_grid) :
            /\ (k % Columns # 0) =>
                  Shared(tile_grid[k][2], tile_grid[k][3],
                         tile_grid[k + 1][2], tile_grid[k + 1][3]) <= overlap
            /\ (k + Columns <= Len(tile_grid)) =>
                  Shared(tile_grid[k][1], tile_grid[k][4],
                         tile_grid[k + Columns][1], tile_grid[k + Columns][4])
                      <= overlap

\* C3: with an invalid configuration the run never writes a tile file, never
\* prints the success report and ends with a non-zero exit status.
C3_InvalidRejected ==
    (~ValidConfig) =>
        /\ disk = <<>>
        /\ ~success_reported
        /\ (pc = "done" => exit_status = 1)

\* C4: after a successful run with a valid configuration there are as many
\* distinct tile files as windows in the grid.
C4_OneFilePerWindow ==
    (ValidConfig /\ pc = "done" /\ exit_status = 0) =>
        Cardinality(DOMAIN disk) = Len(tile_grid)

\* C5: with a valid configuration every window of the grid has non-negative
\* offsets, positive width and height, and lies inside the raster.
C5_WindowValid ==
    (ValidConfig /\ Planned) =>
        \A k \in 1..Len(tile_grid) :
            LET w == tile_grid[k]
            IN  /\ w[1] >= 0 /\ w[2] >= 0
                /\ w[3] > 0 /\ w[4] > 0
                /\ w[1] + w[4] <= raster_height
                /\ w[2] + w[3] <= raster_width

\* a grid whose back-extension v - overlap goes below zero
C5_Witness ==
    /\ ValidConfig /\ Planned
    /\ 2 * overlap > tile_size
    /\ raster_width > Stride /\ raster_height > Stride
    /\ Stride - overlap < 0

C7_Cardinality ==
    (ValidConfig /\ Planned) =>
        Len(tile_grid) =
            CeilDiv(raster_height, Stride) * CeilDiv(raster_width, Stride)

\* a grid of several rows and columns, one axis a multiple of the stride and
\* the other not
C7_Witness ==
    /\ ValidConfig /\ Planned
    /\ Stride >= 2
    /\ raster_width % Stride = 0 /\ raster_height % Stride # 0
    /\ Len(tile_grid) >= 4

\* the run on the 4000x4000 raster with tile_size 2000 and overlap 20
MainExample == config = <<4000, 4000, 2000, 20>> /\ Planned

\* C8 as stated: tile_size 2000 and overlap 20 on a 4000x4000 raster give a
\* 2-by-2 grid of 4 windows.
C8_FourWindows ==
    MainExample =>
        /\ Len(tile_grid) = 4
        /\ Cardinality({tile_grid[k][1] : k \in 1..Len(tile_grid)}) = 2
        /\ Cardinality({tile_grid[k][2] : k \in 1..Len(tile_grid)}) = 2

\* C8 amended: tile_size 2000 and overlap 20 on a 4000x4000 raster give a
\* 3-by-3 grid of 9 windows.
C8_NineWindows ==
    MainExample =>
        /\ Len(tile_grid) = 9
        /\ Cardinality({tile_grid[k][1] : k \in 1..Len(tile_grid)}) = 3
        /\ Cardinality({tile_grid[k][2] : k \in 1..Len(tile_grid)}) = 3

\* the example run after all its windows were written
C8_Witness == MainExample /\ pc = "done" /\ exit_status = 0

\* C9: with a valid configuration the tile file names, compared character
\* by character, increase in the order in which the grid lists the windows.
C9_NameOrder ==
    (ValidConfig /\ Planned) =>
        \A i, j \in 1..Len(tile_grid) :
            (i < j) => LexLess(TileName(tile_grid[i]), TileName(tile_grid[j]))

\* positions 1..n in order
IsPrefixOfGrid(s) ==
    /\ Len(s) <= Len(tile_grid)
    /\ \A k \in 1..Len(s) : s[k] = k

C10_State ==
    /\ (pc \in {"start", "mkdtemp", "open", "plan"}) =>
          (reads = <<>> /\ written = <<>> /\ disk = <<>>)
    /\ IsPrefixOfGrid(reads)
    /\ IsPrefixOfGrid(written)
    /\ Len(written) <= Len(reads) /\ Len(reads) <= Len(written) + 1
    /\ \A k \in 1..Len(written) : TileName(tile_grid[k]) \in DOMAIN disk
    /\ (pc = "done" /\ error_reported) => exit_status = 1
    /\ (pc = "done" /\ exit_status = 0) => Len(written) = Len(tile_grid)

C10_Step ==
    (pc \in {"except", "finally", "done"}) =>
        (reads' = reads /\ written' = written /\ disk' = disk)

====
